---------------------------- MODULE Spec2Model ----------------------------
(***************************************************************************)
(* A model of the dm terminal text editor: src/main.go (single-keystroke   *)
(* quit confirmation, whole-document render) and src/unnamed/part_000      *)
(* (line-buffered quit confirmation, scrolled render with a line-number    *)
(* gutter).  The two files share NewEditor, insertRune, insertNewline,     *)
(* backspace, save, cleanup and the edit branches of main's key loop.      *)
(*                                                                         *)
(* Lines are Go slices of runes: a slice header (array, offset, length)    *)
(* over a backing array held in the heap, so that an append that writes in *)
(* place, and two lines that share an array, behave as in Go.              *)
(***************************************************************************)
EXTENDS Integers, Sequences, FiniteSets, TLC

(***************************************************************************)
(* Bounds of the model.                                                    *)
(***************************************************************************)
\* the largest session document, counted as its lines plus its runes (Enter and
\* the inserts are not offered beyond it)
MaxSize == 4
\* most runes the quit-confirmation response grows to
MaxResp == 1
\* most bytes of a file in the load/save specification
MaxFileLen == 4
\* most terminal rows (stty size) and document lines in the view specification
MaxRows == 7
\* the lines of the document, and the rows of the terminal, in the gutter
\* specification
ManyLines == 1000
TermRows == 24

(***************************************************************************)
(* Runes and bytes.  A byte below 0x80 is the rune of the same value; the  *)
(* byte 0xFF is never valid UTF-8; EF BF BD is the encoding of U+FFFD.     *)
(***************************************************************************)
NL == "\n"
Nul == "NUL"
RuneError == "U+FFFD"
HighBytes == {"xFF", "xEF", "xBF", "xBD"}

(***************************************************************************)
(* Go slices.  heap is a sequence of backing arrays; a slice header s      *)
(* covers heap[s.arr][s.off+1 .. s.off+s.len]; its capacity runs to the    *)
(* end of the array.                                                       *)
(***************************************************************************)
Cap(h, s) == Len(h[s.arr]) - s.off

\* the elements of s, in order: string(line), or s as the source of a copy
Data(h, s) == [i \in 1..s.len |-> h[s.arr][s.off + i]]

\* s[i:j]
Slice(s, i, j) == [arr |-> s.arr, off |-> s.off + i, len |-> j - i]

\* make([]rune, n): a fresh zeroed array of exactly n runes
Make(h, n) ==
  [h |-> Append(h, [i \in 1..n |-> Nul]),
   s |-> [arr |-> Len(h) + 1, off |-> 0, len |-> n]]

\* copy(dst, src) with src given by its elements: min(len(dst), len(src)) runes
CopyTo(h, dst, src) ==
  LET n == IF dst.len < Len(src) THEN dst.len ELSE Len(src)
  IN  [h EXCEPT ![dst.arr] =
         [k \in 1..Len(h[dst.arr]) |->
            IF k > dst.off /\ k <= dst.off + n THEN src[k - dst.off]
            ELSE h[dst.arr][k]]]

\* s[i] = v
Store(h, s, i, v) == [h EXCEPT ![s.arr][s.off + i + 1] = v]

\* append(s, src...): in place when the capacity suffices, else into a new
\* array.  Go leaves the new array's capacity open ("sufficiently large"); the
\* model gives it the length needed, and Collect shows why no more is kept.
AppendTo(h, s, src) ==
  LET n == s.len + Len(src)
  IN  IF n <= Cap(h, s)
      THEN [h |-> CopyTo(h, [s EXCEPT !.off = s.off + s.len, !.len = Len(src)], src),
            s |-> [s EXCEPT !.len = n]]
      ELSE LET old == Data(h, s)
           IN  [h |-> Append(h, [k \in 1..n |-> IF k <= s.len THEN old[k]
                                                ELSE src[k - s.len]]),
                s |-> [arr |-> Len(h) + 1, off |-> 0, len |-> n]]

\* []rune(line): a fresh array holding the runes
FromRunes(h, rs) ==
  [h |-> Append(h, rs), s |-> [arr |-> Len(h) + 1, off |-> 0, len |-> Len(rs)]]

(***************************************************************************)
(* What of the heap is state.  Arrays no line refers to are garbage, and   *)
(* array identities are not observable: Collect keeps the arrays the       *)
(* content refers to, numbered in the order the lines first refer to them. *)
(* A cell that no line covers holds a stale rune that no statement reads:  *)
(* the code reslices only within a line's length, and append writes such a *)
(* cell before it becomes part of a line.  So an array that one line alone *)
(* refers to is kept as the cells of that line (whether a later append     *)
(* finds spare capacity or moves the line to a new array, the line holds   *)
(* the same runes and still shares with no one), and an array that several *)
(* lines share is kept whole, its uncovered cells blanked.                 *)
(***************************************************************************)
RECURSIVE FirstRefs(_)
FirstRefs(c) ==
  IF c = << >> THEN << >>
  ELSE LET r == FirstRefs(SubSeq(c, 1, Len(c) - 1))
           a == c[Len(c)].arr
       IN  IF \E i \in 1..Len(r) : r[i] = a THEN r ELSE Append(r, a)

Shared(c, a) == Cardinality({i \in 1..Len(c) : c[i].arr = a}) > 1

Live(c, a, k) ==
  \E i \in 1..Len(c) : c[i].arr = a /\ k > c[i].off /\ k <= c[i].off + c[i].len

Collect(c, h) ==
  LET ord == FirstRefs(c)
      new(a) == CHOOSE k \in 1..Len(ord) : ord[k] = a
      owner(a) == CHOOSE i \in 1..Len(c) : c[i].arr = a
  IN  [content |-> [i \in 1..Len(c) |->
                      IF Shared(c, c[i].arr)
                      THEN [c[i] EXCEPT !.arr = new(c[i].arr)]
                      ELSE [arr |-> new(c[i].arr), off |-> 0, len |-> c[i].len]],
       h |-> [n \in 1..Len(ord) |->
                IF Shared(c, ord[n])
                THEN [k \in 1..Len(h[ord[n]]) |->
                        IF Live(c, ord[n], k) THEN h[ord[n]][k] ELSE Nul]
                ELSE Data(h, c[owner(ord[n])])]]

\* the document as the user sees it: the runes of every line
Lines(e, h) == [i \in 1..Len(e.content) |-> Data(h, e.content[i])]

\* len(e.content[row]), row counted from 0 as in the source
LineLen(e, row) == e.content[row + 1].len

\* the size of the document: its lines plus its runes
RECURSIVE Runes(_)
Runes(c) == IF c = << >> THEN 0 ELSE Head(c).len + Runes(Tail(c))

Size(e) == Len(e.content) + Runes(e.content)


(***************************************************************************)
(* The Editor (content, cursorX, cursorY, modified; filename is fixed).    *)
(* Each method takes the editor e and the heap h and gives the editor and  *)
(* heap it leaves.  Rows and columns count from 0 as in the source;        *)
(* content[row + 1] is the source's e.content[row].                        *)
(***************************************************************************)
Mem(e, c, h) ==
  LET g == Collect(c, h)
  IN  [e |-> [e EXCEPT !.content = g.content], h |-> g.h]

insertRune(e, h, r) ==
  LET y == e.cursorY
      x == e.cursorX
      line == e.content[y + 1]
      put == IF x = line.len
             THEN AppendTo(h, line, <<r>>)
             ELSE LET m == Make(h, line.len + 1)
                      h1 == CopyTo(m.h, m.s, Data(h, Slice(line, 0, x)))
                      h2 == Store(h1, m.s, x, r)
                      h3 == CopyTo(h2, Slice(m.s, x + 1, m.s.len),
                                   Data(h, Slice(line, x, line.len)))
                  IN  [h |-> h3, s |-> m.s]
  IN  Mem([e EXCEPT !.cursorX = x + 1, !.modified = TRUE],
          [e.content EXCEPT ![y + 1] = put.s], put.h)

\* insertNewline without e.modified = true
insertNewlineKeepsFlag(e, h) ==
  LET y == e.cursorY
      x == e.cursorX
      currentLine == e.content[y + 1]
      m == Make(h, currentLine.len - x)
      h1 == CopyTo(m.h, m.s, Data(h, Slice(currentLine, x, currentLine.len)))
      c1 == [e.content EXCEPT ![y + 1] = Slice(currentLine, 0, x)]
      c2 == SubSeq(c1, 1, y + 1) \o SubSeq(c1, y + 1, Len(c1))
      c3 == [c2 EXCEPT ![y + 2] = m.s]
  IN  Mem([e EXCEPT !.cursorY = y + 1, !.cursorX = 0], c3, h1)

\* insertNewline with rightPart := currentLine[x:], a slice of the line's own
\* array, in place of the make and copy
insertNewlineAliasesRight(e, h) ==
  LET y == e.cursorY
      x == e.cursorX
      currentLine == e.content[y + 1]
      c1 == [e.content EXCEPT ![y + 1] = Slice(currentLine, 0, x)]
      c2 == SubSeq(c1, 1, y + 1) \o SubSeq(c1, y + 1, Len(c1))
      c3 == [c2 EXCEPT ![y + 2] = Slice(currentLine, x, currentLine.len)]
  IN  Mem([e EXCEPT !.cursorY = y + 1, !.cursorX = 0, !.modified = TRUE], c3, h)

\* insertNewline storing the right part over the line that followed, without
\* the shift of the lines after row y
insertNewlineOverwritesNext(e, h) ==
  LET y == e.cursorY
      x == e.cursorX
      currentLine == e.content[y + 1]
      m == Make(h, currentLine.len - x)
      h1 == CopyTo(m.h, m.s, Data(h, Slice(currentLine, x, currentLine.len)))
      c1 == [e.content EXCEPT ![y + 1] = Slice(currentLine, 0, x)]
      c3 == SubSeq(c1, 1, y + 1) \o <<m.s>> \o SubSeq(c1, y + 3, Len(c1))
  IN  Mem([e EXCEPT !.cursorY = y + 1, !.cursorX = 0, !.modified = TRUE], c3, h1)

insertNewline(e, h) ==
  LET y == e.cursorY
      x == e.cursorX
      currentLine == e.content[y + 1]
      m == Make(h, currentLine.len - x)
      h1 == CopyTo(m.h, m.s, Data(h, Slice(currentLine, x, currentLine.len)))
      rightPart == m.s
      c1 == [e.content EXCEPT ![y + 1] = Slice(currentLine, 0, x)]
      \* append(e.content[:y+1], e.content[y:]...)
      c2 == SubSeq(c1, 1, y + 1) \o SubSeq(c1, y + 1, Len(c1))
      c3 == [c2 EXCEPT ![y + 2] = rightPart]
  IN  Mem([e EXCEPT !.cursorY = y + 1, !.cursorX = 0, !.modified = TRUE], c3, h1)

\* backspace whose merge leaves cursorX at 0 instead of the join point
backspaceKeepsColumn(e, h) ==
  LET y == e.cursorY
      x == e.cursorX
  IN  IF x > 0
      THEN LET line == e.content[y + 1]
               a == AppendTo(h, Slice(line, 0, x - 1),
                             Data(h, Slice(line, x, line.len)))
           IN  Mem([e EXCEPT !.cursorX = x - 1, !.modified = TRUE],
                   [e.content EXCEPT ![y + 1] = a.s], a.h)
      ELSE IF y > 0
      THEN LET a == AppendTo(h, e.content[y], Data(h, e.content[y + 1]))
               c1 == [e.content EXCEPT ![y] = a.s]
               c2 == SubSeq(c1, 1, y) \o SubSeq(c1, y + 2, Len(c1))
           IN  Mem([e EXCEPT !.cursorY = y - 1, !.modified = TRUE], c2, a.h)
      ELSE [e |-> e, h |-> h]

\* backspace whose merge removes line y without appending it to line y - 1
backspaceDropsCurrent(e, h) ==
  LET y == e.cursorY
      x == e.cursorX
  IN  IF x > 0
      THEN LET line == e.content[y + 1]
               a == AppendTo(h, Slice(line, 0, x - 1),
                             Data(h, Slice(line, x, line.len)))
           IN  Mem([e EXCEPT !.cursorX = x - 1, !.modified = TRUE],
                   [e.content EXCEPT ![y + 1] = a.s], a.h)
      ELSE IF y > 0
      THEN LET c2 == SubSeq(e.content, 1, y) \o SubSeq(e.content, y + 2, Len(e.content))
           IN  Mem([e EXCEPT !.cursorX = e.content[y].len, !.cursorY = y - 1,
                             !.modified = TRUE], c2, h)
      ELSE [e |-> e, h |-> h]

\* backspace that cuts the line at x - 1 instead of closing the gap
backspaceTruncatesLine(e, h) ==
  LET y == e.cursorY
      x == e.cursorX
  IN  IF x > 0
      THEN Mem([e EXCEPT !.cursorX = x - 1, !.modified = TRUE],
               [e.content EXCEPT ![y + 1] = Slice(e.content[y + 1], 0, x - 1)], h)
      ELSE IF y > 0
      THEN LET prevLine == e.content[y]
               a == AppendTo(h, prevLine, Data(h, e.content[y + 1]))
               c1 == [e.content EXCEPT ![y] = a.s]
               c2 == SubSeq(c1, 1, y) \o SubSeq(c1, y + 2, Len(c1))
           IN  Mem([e EXCEPT !.cursorX = prevLine.len, !.cursorY = y - 1,
                             !.modified = TRUE], c2, a.h)
      ELSE [e |-> e, h |-> h]

backspace(e, h) ==
  LET y == e.cursorY
      x == e.cursorX
  IN  IF x > 0
      THEN LET line == e.content[y + 1]
               a == AppendTo(h, Slice(line, 0, x - 1),
                             Data(h, Slice(line, x, line.len)))
           IN  Mem([e EXCEPT !.cursorX = x - 1, !.modified = TRUE],
                   [e.content EXCEPT ![y + 1] = a.s], a.h)
      ELSE IF y > 0
      THEN LET prevLine == e.content[y]
               currentLine == e.content[y + 1]
               a == AppendTo(h, prevLine, Data(h, currentLine))
               c1 == [e.content EXCEPT ![y] = a.s]
               \* append(e.content[:y], e.content[y+1:]...)
               c2 == SubSeq(c1, 1, y) \o SubSeq(c1, y + 2, Len(c1))
           IN  Mem([e EXCEPT !.cursorX = prevLine.len, !.cursorY = y - 1,
                             !.modified = TRUE], c2, a.h)
      ELSE [e |-> e, h |-> h]

(***************************************************************************)
(* The file.  fs is the file's state as os.Stat and os.ReadFile meet it:   *)
(* "absent" (Stat: not found), "present", "unreadable" (Stat succeeds,     *)
(* ReadFile fails), "noaccess" (Stat fails with an error other than not    *)
(* found, such as a directory that may not be searched).  data holds the   *)
(* bytes.                                                                  *)
(***************************************************************************)
\* string(line): the UTF-8 encoding of the runes
RECURSIVE Encode(_)
Encode(rs) ==
  IF rs = << >> THEN << >>
  ELSE (IF Head(rs) = RuneError THEN <<"xEF", "xBF", "xBD">> ELSE <<Head(rs)>>)
       \o Encode(Tail(rs))

\* []rune(line): a byte that starts no valid sequence decodes to U+FFFD
RECURSIVE Decode(_)
Decode(bs) ==
  IF bs = << >> THEN << >>
  ELSE IF Len(bs) >= 3 /\ SubSeq(bs, 1, 3) = <<"xEF", "xBF", "xBD">>
  THEN <<RuneError>> \o Decode(SubSeq(bs, 4, Len(bs)))
  ELSE IF Head(bs) \in HighBytes
  THEN <<RuneError>> \o Decode(Tail(bs))
  ELSE <<Head(bs)>> \o Decode(Tail(bs))

\* strings.Split(s, "\n"): one more piece than there are separators
RECURSIVE Split(_)
Split(bs) ==
  IF \A i \in 1..Len(bs) : bs[i] # NL THEN <<bs>>
  ELSE LET i == CHOOSE k \in 1..Len(bs) :
                  bs[k] = NL /\ \A j \in 1..(k - 1) : bs[j] # NL
       IN  <<SubSeq(bs, 1, i - 1)>> \o Split(SubSeq(bs, i + 1, Len(bs)))

\* the lines of NewEditor's loop, each []rune(line) in an array of its own
RECURSIVE LoadLines(_, _)
LoadLines(h, pieces) ==
  IF pieces = << >> THEN [h |-> h, c |-> << >>]
  ELSE LET f == FromRunes(h, Decode(Head(pieces)))
           rest == LoadLines(f.h, Tail(pieces))
       IN  [h |-> rest.h, c |-> <<f.s>> \o rest.c]

\* the editor NewEditor starts from: one empty line, cursor (0, 0), not modified
EmptyEditor ==
  LET m == Make(<< >>, 0)
  IN  Mem([content |-> <<m.s>>, cursorX |-> 0, cursorY |-> 0, modified |-> FALSE],
          <<m.s>>, m.h)

\* the editor NewEditor builds from the bytes ReadFile returned
LoadedEditor(bs) ==
  LET l == LoadLines(<< >>, Split(bs))
  IN  Mem(EmptyEditor.e, l.c, l.h)

\* save writing a newline after every line, the last one too
SerializeTrailingNewline(e, h) ==
  LET ls == Lines(e, h)
      F[i \in 0..Len(ls)] ==
        IF i = 0 THEN << >> ELSE F[i - 1] \o Encode(ls[i]) \o <<NL>>
  IN  F[Len(ls)]

\* the bytes save hands to os.WriteFile
Serialize(e, h) ==
  LET ls == Lines(e, h)
      F[i \in 0..Len(ls)] ==
        IF i = 0 THEN << >>
        ELSE F[i - 1] \o Encode(ls[i]) \o (IF i < Len(ls) THEN <<NL>> ELSE << >>)
  IN  F[Len(ls)]

\* save clearing modified whatever os.WriteFile returned
saveClearsOnError(e, ok) == [e EXCEPT !.modified = FALSE]

\* save: err == nil clears modified; written is what os.WriteFile left in the file
save(e, ok) == IF ok THEN [e EXCEPT !.modified = FALSE] ELSE e


(***************************************************************************)
(* The process.                                                            *)
(*   variant   which main is running: "editor" (src/main.go) or "dm"       *)
(*             (src/unnamed/part_000)                                      *)
(*   argc      len(os.Args)                                                *)
(*   pc        "main" before the argument check, "ReadFile" between        *)
(*             os.Stat and os.ReadFile, "Open" before keyboard.Open,       *)
(*             "loop" blocked in the key loop's GetKey, "confirm" blocked  *)
(*             in the quit prompt's GetKey, "exited"                       *)
(*   fs, data  the file                                                    *)
(*   editor, heap   the Editor and the backing arrays of its lines         *)
(*   rawMode   the terminal is in raw mode (keyboard.Open .. Close)        *)
(*   exitCode  the exit status, -1 while running                           *)
(*   response  the answer typed so far at the prompt of "dm"               *)
(*   saved     history: the lines last loaded or successfully saved        *)
(*   lastEv    history: the last step taken, and whether it failed         *)
(*   rows, screen   the view specification: stty's row count and what      *)
(*             render drew                                                 *)
(*   firstLoad, loads  the load/save specification: the lines of the       *)
(*             first load and the number of loads                          *)
(***************************************************************************)
VARIABLES variant, argc, pc, fs, data, editor, heap, rawMode, exitCode,
          response, saved, lastEv, rows, screen, firstLoad, loads

vars == <<variant, argc, pc, fs, data, editor, heap, rawMode, exitCode,
          response, saved, lastEv, rows, screen, firstLoad, loads>>

fixed == <<variant, argc, rows, screen, firstLoad, loads>>

Variants == {"editor", "dm"}

\* the runes typed while editing and at the prompt
TypedRunes == {"a"}
AnswerRunes == {"y", "n", "a"}

\* the files a session starts from
SessionFiles == {<< >>, <<"a">>, <<"a", NL, " ">>}

\* a step: the branch taken, the rune it carried, whether its I/O call failed
Ev(op, char, fail) == [op |-> op, char |-> char, fail |-> fail]

NoScreen ==
  [vis |-> 0, startLine |-> 0, shown |-> 0, row |-> 0, col |-> 0, prefix |-> 0]

Init ==
  /\ variant \in Variants
  /\ argc \in {1, 2}
  /\ pc = "main"
  /\ fs \in {"absent", "present", "unreadable", "noaccess"}
  /\ data \in (IF fs = "present" THEN SessionFiles ELSE {<< >>})
  /\ editor = EmptyEditor.e
  /\ heap = EmptyEditor.h
  /\ rawMode = FALSE
  /\ exitCode = -1
  /\ response = << >>
  /\ saved = << >>
  /\ lastEv = Ev("start", Nul, FALSE)
  /\ rows = 0
  /\ screen = NoScreen
  /\ firstLoad = << >>
  /\ loads = 0

\* os.Exit(code): the process ends at once; deferred calls do not run
Exit(code) ==
  /\ pc' = "exited"
  /\ exitCode' = code

\* return from main: the deferred cleanup runs keyboard.Close, then exit status 0
ReturnFromMain ==
  /\ pc' = "exited"
  /\ exitCode' = 0
  /\ rawMode' = FALSE

\* len(os.Args) != 2
Usage ==
  /\ pc = "main"
  /\ argc # 2
  /\ Exit(1)
  /\ lastEv' = Ev("Usage", Nul, TRUE)
  /\ UNCHANGED <<fixed, fs, data, editor, heap, rawMode, response, saved>>

\* NewEditor up to os.Stat: any Stat error leaves the one empty line
Stat ==
  /\ pc = "main"
  /\ argc = 2
  /\ IF fs \in {"present", "unreadable"}
     THEN /\ pc' = "ReadFile"
          /\ UNCHANGED <<editor, heap, saved>>
     ELSE /\ pc' = "Open"
          /\ editor' = EmptyEditor.e
          /\ heap' = EmptyEditor.h
          /\ saved' = Lines(EmptyEditor.e, EmptyEditor.h)
  /\ lastEv' = Ev("Stat", Nul, fs \notin {"present", "unreadable"})
  /\ UNCHANGED <<fixed, fs, data, rawMode, exitCode, response>>

\* the file is removed or made unreadable between os.Stat and os.ReadFile
FileChanges ==
  /\ pc = "ReadFile"
  /\ fs = "present"
  /\ fs' \in {"absent", "unreadable"}
  /\ UNCHANGED <<fixed, pc, data, editor, heap, rawMode, exitCode, response,
                 saved, lastEv>>

\* os.ReadFile and the rest of NewEditor; main exits with 1 on its error
ReadFile ==
  /\ pc = "ReadFile"
  /\ IF fs = "present"
     THEN /\ pc' = "Open"
          /\ editor' = LoadedEditor(data).e
          /\ heap' = LoadedEditor(data).h
          /\ saved' = Lines(LoadedEditor(data).e, LoadedEditor(data).h)
          /\ UNCHANGED exitCode
     ELSE /\ Exit(1)
          /\ UNCHANGED <<editor, heap, saved>>
  /\ lastEv' = Ev("ReadFile", Nul, fs # "present")
  /\ UNCHANGED <<fixed, fs, data, rawMode, response>>

\* keyboard.Open, and defer cleanup() when it succeeded
KeyboardOpen ==
  /\ pc = "Open"
  /\ \E ok \in BOOLEAN :
       /\ IF ok
          THEN /\ rawMode' = TRUE
               /\ pc' = "loop"
               /\ UNCHANGED exitCode
          ELSE /\ Exit(1)
               /\ UNCHANGED rawMode
       /\ lastEv' = Ev("Open", Nul, ~ok)
  /\ UNCHANGED <<fixed, fs, data, editor, heap, response, saved>>


(***************************************************************************)
(* os.WriteFile(e.filename, bytes, 0644).  On success the file holds the   *)
(* bytes.  On failure the file is as it was (the open failed) or is left   *)
(* truncated (the open succeeded and the write did not).                   *)
(***************************************************************************)
WriteFile(bytes, ok) ==
  IF ok
  THEN /\ data' = bytes
       /\ fs' = IF fs \in {"absent", "noaccess"} THEN "present" ELSE fs
  ELSE \/ UNCHANGED <<fs, data>>
       \/ /\ fs \in {"present", "unreadable"}
          /\ data' = << >>
          /\ UNCHANGED fs

\* editor.save(): the state it leaves, by whether os.WriteFile succeeded
Save(ok) ==
  /\ WriteFile(Serialize(editor, heap), ok)
  /\ editor' = save(editor, ok)
  /\ saved' = IF ok THEN Lines(editor, heap) ELSE saved
  /\ UNCHANGED heap

(***************************************************************************)
(* The key loop: render, keyboard.GetKey, switch key.  One action per      *)
(* case; pc = "loop" is the loop blocked in GetKey.                        *)
(***************************************************************************)
\* GetKey returns an error: os.Exit(1)
GetKeyError ==
  /\ pc = "loop"
  /\ Exit(1)
  /\ lastEv' = Ev("GetKey", Nul, TRUE)
  /\ UNCHANGED <<fixed, fs, data, editor, heap, rawMode, response, saved>>

\* Ctrl-Q that asks for confirmation whether or not the document is modified
KeyCtrlQAlwaysPrompts ==
  /\ pc = "loop"
  /\ pc' = "confirm"
  /\ response' = << >>
  /\ lastEv' = Ev("CtrlQ", Nul, FALSE)
  /\ UNCHANGED <<fixed, fs, data, editor, heap, saved, rawMode, exitCode>>

\* case keyboard.KeyCtrlQ, up to the prompt
KeyCtrlQ ==
  /\ pc = "loop"
  /\ IF ~editor.modified
     THEN /\ ReturnFromMain
          /\ UNCHANGED response
     ELSE /\ pc' = "confirm"
          /\ response' = << >>
          /\ UNCHANGED <<rawMode, exitCode>>
  /\ lastEv' = Ev("CtrlQ", Nul, FALSE)
  /\ UNCHANGED <<fixed, fs, data, editor, heap, saved>>

\* case keyboard.KeyCtrlS
KeyCtrlS ==
  /\ pc = "loop"
  /\ \E ok \in BOOLEAN :
       /\ Save(ok)
       /\ lastEv' = Ev("CtrlS", Nul, ~ok)
  /\ UNCHANGED <<fixed, pc, rawMode, exitCode, response>>

\* the cursor moves of the four arrow cases
ArrowLeft(e) == IF e.cursorX > 0 THEN [e EXCEPT !.cursorX = e.cursorX - 1] ELSE e

\* ArrowRight that wraps from the end of a line to the start of the next
ArrowRightWraps(e) ==
  IF e.cursorX < LineLen(e, e.cursorY) THEN [e EXCEPT !.cursorX = e.cursorX + 1]
  ELSE IF e.cursorY < Len(e.content) - 1
  THEN [e EXCEPT !.cursorY = e.cursorY + 1, !.cursorX = 0]
  ELSE e

ArrowRight(e) ==
  IF e.cursorX < LineLen(e, e.cursorY) THEN [e EXCEPT !.cursorX = e.cursorX + 1] ELSE e

\* ArrowUp that keeps cursorX whatever the length of the line above
ArrowUpKeepsColumn(e) ==
  IF e.cursorY > 0 THEN [e EXCEPT !.cursorY = e.cursorY - 1] ELSE e

ArrowUp(e) ==
  IF e.cursorY > 0
  THEN LET y == e.cursorY - 1
       IN  [e EXCEPT !.cursorY = y,
                     !.cursorX = IF e.cursorX > LineLen(e, y) THEN LineLen(e, y)
                                 ELSE e.cursorX]
  ELSE e

\* ArrowDown without the clamp of cursorX to the new line
ArrowDownNoClamp(e) ==
  IF e.cursorY < Len(e.content) - 1 THEN [e EXCEPT !.cursorY = e.cursorY + 1] ELSE e

ArrowDown(e) ==
  IF e.cursorY < Len(e.content) - 1
  THEN LET y == e.cursorY + 1
       IN  [e EXCEPT !.cursorY = y,
                     !.cursorX = IF e.cursorX > LineLen(e, y) THEN LineLen(e, y)
                                 ELSE e.cursorX]
  ELSE e

Move(op, e) ==
  /\ pc = "loop"
  /\ editor' = e
  /\ lastEv' = Ev(op, Nul, FALSE)
  /\ UNCHANGED <<fixed, pc, fs, data, heap, rawMode, exitCode, response, saved>>

KeyArrowLeft == Move("ArrowLeft", ArrowLeft(editor))

KeyArrowRight == Move("ArrowRight", ArrowRight(editor))

KeyArrowUp == Move("ArrowUp", ArrowUp(editor))

KeyArrowDown == Move("ArrowDown", ArrowDown(editor))

Edit(op, char, m) ==
  /\ pc = "loop"
  /\ editor' = m.e
  /\ heap' = m.h
  /\ lastEv' = Ev(op, char, FALSE)
  /\ UNCHANGED <<fixed, pc, fs, data, rawMode, exitCode, response, saved>>

\* case keyboard.KeyEnter
KeyEnter ==
  /\ pc = "loop"
  /\ Size(editor) < MaxSize
  /\ Edit("Enter", Nul, insertNewline(editor, heap))

\* case keyboard.KeyBackspace, keyboard.KeyBackspace2
KeyBackspace ==
  /\ pc = "loop"
  /\ Edit("Backspace", Nul, backspace(editor, heap))

\* case keyboard.KeySpace
KeySpace ==
  /\ pc = "loop"
  /\ Size(editor) < MaxSize
  /\ Edit("Space", " ", insertRune(editor, heap, " "))

\* default, char != 0
KeyRune ==
  /\ pc = "loop"
  /\ Size(editor) < MaxSize
  /\ \E char \in TypedRunes : Edit("Rune", char, insertRune(editor, heap, char))

\* default, char == 0: a key of no case (Esc, Tab, a function key)
KeyOther ==
  /\ pc = "loop"
  /\ lastEv' = Ev("Other", Nul, FALSE)
  /\ UNCHANGED <<fixed, pc, fs, data, editor, heap, rawMode, exitCode, response, saved>>


(***************************************************************************)
(* The quit prompt.  Both variants drop GetKey's error, so a failed read   *)
(* arrives as char 0 and key 0.                                            *)
(***************************************************************************)
\* "editor": char, _, _ := keyboard.GetKey(); save on 'y'; return unless the save failed
PromptKey ==
  /\ variant = "editor"
  /\ pc = "confirm"
  /\ \E char \in AnswerRunes \cup {Nul}, err \in BOOLEAN :
       /\ err => char = Nul
       /\ IF char = "y"
          THEN \E ok \in BOOLEAN :
                 /\ Save(ok)
                 /\ IF ok
                    THEN ReturnFromMain
                    ELSE /\ pc' = "loop"
                         /\ UNCHANGED <<rawMode, exitCode>>
                 /\ lastEv' = Ev("Prompt", char, ~ok)
          ELSE /\ ReturnFromMain
               /\ lastEv' = Ev("Prompt", char, err)
               /\ UNCHANGED <<fs, data, editor, heap, saved>>
  /\ UNCHANGED <<fixed, response>>

\* "dm": key == keyboard.KeyEnter
ConfirmEnter ==
  /\ variant = "dm"
  /\ pc = "confirm"
  /\ IF response = <<"y">>
     THEN \E ok \in BOOLEAN :
            /\ Save(ok)
            /\ IF ok
               THEN ReturnFromMain
               ELSE UNCHANGED <<pc, rawMode, exitCode>>
            /\ lastEv' = Ev("ConfirmEnter", Nul, ~ok)
            /\ UNCHANGED response
     ELSE /\ IF response = <<"n">>
             THEN /\ ReturnFromMain
                  /\ UNCHANGED response
             ELSE /\ response' = << >>
                  /\ UNCHANGED <<pc, rawMode, exitCode>>
          /\ lastEv' = Ev("ConfirmEnter", Nul, FALSE)
          /\ UNCHANGED <<fs, data, editor, heap, saved>>
  /\ UNCHANGED fixed

\* Backspace at the prompt that also reaches the editor's backspace
ConfirmBackspaceEditsDocument ==
  /\ variant = "dm"
  /\ pc = "confirm"
  /\ response' = IF Len(response) > 0 THEN SubSeq(response, 1, Len(response) - 1)
                 ELSE response
  /\ editor' = backspace(editor, heap).e
  /\ heap' = backspace(editor, heap).h
  /\ lastEv' = Ev("ConfirmBackspace", Nul, FALSE)
  /\ UNCHANGED <<fixed, pc, fs, data, rawMode, exitCode, saved>>

\* "dm": key == keyboard.KeyBackspace || key == keyboard.KeyBackspace2
ConfirmBackspace ==
  /\ variant = "dm"
  /\ pc = "confirm"
  /\ response' = IF Len(response) > 0 THEN SubSeq(response, 1, Len(response) - 1)
                 ELSE response
  /\ lastEv' = Ev("ConfirmBackspace", Nul, FALSE)
  /\ UNCHANGED <<fixed, pc, fs, data, editor, heap, rawMode, exitCode, saved>>

\* "dm": char != 0
ConfirmRune ==
  /\ variant = "dm"
  /\ pc = "confirm"
  /\ Len(response) < MaxResp
  /\ \E char \in AnswerRunes :
       /\ response' = Append(response, char)
       /\ lastEv' = Ev("ConfirmRune", char, FALSE)
  /\ UNCHANGED <<fixed, pc, fs, data, editor, heap, rawMode, exitCode, saved>>

\* "dm": another key without a rune, or a failed read: no branch is taken
ConfirmOther ==
  /\ variant = "dm"
  /\ pc = "confirm"
  /\ \E err \in BOOLEAN : lastEv' = Ev("ConfirmOther", Nul, err)
  /\ UNCHANGED <<fixed, pc, fs, data, editor, heap, rawMode, exitCode, response, saved>>

Next ==
  \/ Usage
  \/ Stat
  \/ FileChanges
  \/ ReadFile
  \/ KeyboardOpen
  \/ GetKeyError
  \/ KeyCtrlQ
  \/ KeyCtrlS
  \/ KeyArrowLeft
  \/ KeyArrowRight
  \/ KeyArrowUp
  \/ KeyArrowDown
  \/ KeyEnter
  \/ KeyBackspace
  \/ KeySpace
  \/ KeyRune
  \/ KeyOther
  \/ PromptKey
  \/ ConfirmEnter
  \/ ConfirmBackspace
  \/ ConfirmRune
  \/ ConfirmOther

Spec == Init /\ [][Next]_vars


(***************************************************************************)
(* render.  It writes to the terminal and changes nothing of the editor,   *)
(* so the session specification leaves the drawing out; the view           *)
(* specification keeps what was drawn last in screen: vis is               *)
(* visibleLines, shown the number of lines printed, (row, col) the         *)
(* terminal cursor.  r is the row count stty size reported, 0 when it      *)
(* could not be read.                                                      *)
(***************************************************************************)
\* Go's integer division truncates toward zero
GoDiv(a, b) == IF a >= 0 THEN a \div b ELSE -((-a) \div b)

\* the viewport calculation without the clamp to the last page
StartLineNoLastPage(n, y, vis) ==
  IF n > vis
  THEN LET s0 == y - GoDiv(vis, 2)
       IN  IF s0 < 0 THEN 0 ELSE s0
  ELSE 0

\* part_000: the viewport calculation
StartLine(n, y, vis) ==
  IF n > vis
  THEN LET s0 == y - GoDiv(vis, 2)
           s1 == IF s0 < 0 THEN 0 ELSE s0
       IN  IF s1 > n - vis THEN n - vis ELSE s1
  ELSE 0

\* the decimal digits of n >= 0
RECURSIVE Digits(_)
Digits(n) == IF n < 10 THEN 1 ELSE 1 + Digits(n \div 10)

\* part_000: the cells fmt.Printf("\033[90m%3d \033[0m", lineNo) prints: the
\* number right-aligned in at least 3 cells, and a space; the colour
\* sequences take none
PrefixWidth(lineNo) == (IF Digits(lineNo) < 3 THEN 3 ELSE Digits(lineNo)) + 1

\* part_000: render; prefix is the width of the gutter printed before line
\* cursorY
renderDm(e, r) ==
  LET n == Len(e.content)
      vis == r - 1
      startLine == StartLine(n, e.cursorY, vis)
  IN  [vis |-> vis,
       startLine |-> startLine,
       shown |-> Cardinality({i \in 0..(vis - 1) : i + startLine < n}),
       row |-> e.cursorY - startLine + 1,
       col |-> e.cursorX + 5,
       prefix |-> PrefixWidth(e.cursorY + 1)]

\* main.go: render prints every line and knows no terminal size
renderEditor(e, r) ==
  [vis |-> Len(e.content),
   startLine |-> 0,
   shown |-> Len(e.content),
   row |-> e.cursorY + 1,
   col |-> e.cursorX + 1,
   prefix |-> 0]

render(v, e, r) == IF v = "dm" THEN renderDm(e, r) ELSE renderEditor(e, r)

(***************************************************************************)
(* The view specification: a document of 1..MaxRows lines at any cursor    *)
(* row, a terminal of 0..MaxRows rows that may be resized between two      *)
(* renders, and the vertical arrow keys, each followed by the loop's       *)
(* render.                                                                 *)
(***************************************************************************)
\* the file of n lines, each holding the rune "a"
FileOfLines(n) ==
  [i \in 1..(2 * n - 1) |-> IF i % 2 = 1 THEN "a" ELSE NL]

ViewInit ==
  /\ variant \in Variants
  /\ argc = 2
  /\ pc = "loop"
  /\ fs = "present"
  /\ \E n \in 1..MaxRows : data = FileOfLines(n)
  /\ \E y \in 0..(MaxRows - 1), x \in 0..1 :
       /\ y < Len(LoadedEditor(data).e.content)
       /\ editor = [LoadedEditor(data).e EXCEPT !.cursorY = y, !.cursorX = x]
  /\ heap = LoadedEditor(data).h
  /\ rawMode = TRUE
  /\ exitCode = -1
  /\ response = << >>
  /\ saved = Lines(editor, heap)
  /\ lastEv = Ev("Open", Nul, FALSE)
  /\ rows \in 0..MaxRows
  /\ screen = render(variant, editor, rows)
  /\ firstLoad = << >>
  /\ loads = 0

ViewStep(op, e, r) ==
  /\ pc = "loop"
  /\ editor' = e
  /\ rows' = r
  /\ screen' = render(variant, e, r)
  /\ lastEv' = Ev(op, Nul, FALSE)
  /\ UNCHANGED <<variant, argc, pc, fs, data, heap, rawMode, exitCode, response,
                 saved, firstLoad, loads>>

\* the terminal is resized, and the next render reads the new size
ViewResize == \E r \in 0..MaxRows : ViewStep("Other", editor, r)

ViewArrowUp == ViewStep("ArrowUp", ArrowUp(editor), rows)

ViewArrowDown == ViewStep("ArrowDown", ArrowDown(editor), rows)

ViewNext == ViewResize \/ ViewArrowUp \/ ViewArrowDown

SpecView == ViewInit /\ [][ViewNext]_vars

(***************************************************************************)
(* The gutter specification: a document of ManyLines lines, each the rune   *)
(* "a", on a terminal of TermRows rows, the cursor on any row, and the four *)
(* arrow keys, each followed by the loop's render.                          *)
(***************************************************************************)
\* what NewEditor builds from FileOfLines(n): n lines, each the rune "a" in an
\* array of its own
EditorOfLines(n) ==
  [e |-> [content |-> [i \in 1..n |-> [arr |-> i, off |-> 0, len |-> 1]],
          cursorX |-> 0, cursorY |-> 0, modified |-> FALSE],
   h |-> [i \in 1..n |-> <<"a">>]]

GutterInit ==
  /\ variant \in Variants
  /\ argc = 2
  /\ pc = "loop"
  /\ fs = "present"
  /\ data = FileOfLines(ManyLines)
  /\ \E y \in 0..(ManyLines - 1), x \in 0..1 :
       editor = [EditorOfLines(ManyLines).e EXCEPT !.cursorY = y, !.cursorX = x]
  /\ heap = EditorOfLines(ManyLines).h
  /\ rawMode = TRUE
  /\ exitCode = -1
  /\ response = << >>
  /\ saved = Lines(editor, heap)
  /\ lastEv = Ev("Open", Nul, FALSE)
  /\ rows = TermRows
  /\ screen = render(variant, editor, rows)
  /\ firstLoad = << >>
  /\ loads = 0

GutterArrowLeft == ViewStep("ArrowLeft", ArrowLeft(editor), rows)

GutterArrowRight == ViewStep("ArrowRight", ArrowRight(editor), rows)

GutterArrowUp == ViewStep("ArrowUp", ArrowUp(editor), rows)

GutterArrowDown == ViewStep("ArrowDown", ArrowDown(editor), rows)

GutterNext == GutterArrowLeft \/ GutterArrowRight \/ GutterArrowUp \/ GutterArrowDown

SpecGutter == GutterInit /\ [][GutterNext]_vars

(***************************************************************************)
(* The load/save specification: every file of at most MaxFileLen bytes is  *)
(* loaded by NewEditor, saved unedited, and loaded again by a second run.  *)
(***************************************************************************)
FileBytes == {"a", " ", NL, "xFF"}

FilesUpTo(n) == UNION {[1..k -> FileBytes] : k \in 0..n}

LoadInit ==
  /\ variant \in Variants
  /\ argc = 2
  /\ pc = "main"
  /\ fs = "present"
  /\ data \in FilesUpTo(MaxFileLen)
  /\ editor = EmptyEditor.e
  /\ heap = EmptyEditor.h
  /\ rawMode = FALSE
  /\ exitCode = -1
  /\ response = << >>
  /\ saved = << >>
  /\ lastEv = Ev("start", Nul, FALSE)
  /\ rows = 0
  /\ screen = NoScreen
  /\ firstLoad = << >>
  /\ loads = 0

\* NewEditor on a file that is there and readable, then keyboard.Open
LoadFile ==
  /\ pc = "main"
  /\ pc' = "loop"
  /\ editor' = LoadedEditor(data).e
  /\ heap' = LoadedEditor(data).h
  /\ saved' = Lines(LoadedEditor(data).e, LoadedEditor(data).h)
  /\ firstLoad' = IF loads = 0 THEN saved' ELSE firstLoad
  /\ loads' = loads + 1
  /\ rawMode' = TRUE
  /\ lastEv' = Ev("ReadFile", Nul, FALSE)
  /\ UNCHANGED <<variant, argc, fs, data, exitCode, response, rows, screen>>

\* Ctrl-S with a write that succeeds
SaveFile ==
  /\ pc = "loop"
  /\ ~editor.modified
  /\ lastEv.op = "ReadFile"
  /\ Save(TRUE)
  /\ lastEv' = Ev("CtrlS", Nul, FALSE)
  /\ UNCHANGED <<fixed, pc, rawMode, exitCode, response>>

\* Ctrl-Q with nothing modified, and the program run on the same file again
QuitAndRerun ==
  /\ pc = "loop"
  /\ lastEv.op = "CtrlS"
  /\ loads < 2
  /\ pc' = "main"
  /\ rawMode' = FALSE
  /\ editor' = EmptyEditor.e
  /\ heap' = EmptyEditor.h
  /\ lastEv' = Ev("start", Nul, FALSE)
  /\ UNCHANGED <<fixed, fs, data, exitCode, response, saved>>

LoadNext == LoadFile \/ SaveFile \/ QuitAndRerun

SpecLoad == LoadInit /\ [][LoadNext]_vars


(***************************************************************************)
(* The claims.                                                             *)
(***************************************************************************)
Max(a, b) == IF a >= b THEN a ELSE b

Cursor(e) == <<e.cursorY, e.cursorX>>

SaveSteps == {"CtrlS", "Prompt", "ConfirmEnter"}

\* C1: in every state of a session, from the load on and after every key, the
\* document has at least one line, 0 <= cursorY < line count and
\* 0 <= cursorX <= length of line cursorY.
C1_CursorInBounds ==
  /\ Len(editor.content) >= 1
  /\ editor.cursorY >= 0
  /\ editor.cursorY < Len(editor.content)
  /\ editor.cursorX >= 0
  /\ editor.cursorX <= LineLen(editor, editor.cursorY)

\* C1 witness: Arrow Down has moved the cursor onto a shorter line and left it
\* at that line's end.
C1_Witness ==
  /\ pc = "loop"
  /\ lastEv.op = "ArrowDown"
  /\ editor.cursorY = 1
  /\ editor.cursorX = LineLen(editor, 1)
  /\ LineLen(editor, 0) > LineLen(editor, 1)

\* C2: no process that entered raw mode has exited with the terminal still in
\* raw mode.
C2_RawModeRestoredOnExit == pc = "exited" => ~rawMode

\* C3: a session that was asked to quit with unsaved changes ends only on an
\* answer that is 'y' or 'n'.
C3_QuitNeedsYesOrNo ==
  /\ (pc = "exited" /\ lastEv.op = "Prompt") => lastEv.char \in {"y", "n"}
  /\ (pc = "exited" /\ lastEv.op = "ConfirmEnter") => response \in {<<"y">>, <<"n">>}

\* C4: a step whose save failed, from Ctrl-S or from the answer 'y', leaves the
\* lines, the cursor and the modified flag as they were and the session in the
\* key loop or at the prompt.
C4_FailedSaveChangesNothing ==
  [][(lastEv'.op \in SaveSteps /\ lastEv'.fail
        /\ (lastEv'.op = "Prompt" => lastEv'.char = "y"))
     => /\ editor' = editor
        /\ Lines(editor', heap') = Lines(editor, heap)
        /\ pc' \in {"loop", "confirm"}
        /\ exitCode' = -1
        /\ (pc = "confirm" /\ variant = "dm" => pc' = "confirm")]_vars

\* C4 witness: at the prompt of dm the answer "y" was entered, the save failed,
\* and the session is still at the prompt with its changes.
C4_Witness ==
  /\ pc = "confirm"
  /\ lastEv.op = "ConfirmEnter"
  /\ lastEv.fail
  /\ response = <<"y">>
  /\ editor.modified

\* C5: modified is false once the file is loaded; an insert and a newline set
\* it, a backspace sets it when it changes the document and changes nothing at
\* (0, 0); the arrows leave it and the document alone; it falls only in a save
\* that succeeded; and while it is false the document is the one last loaded
\* or saved.
C5_ModifiedTracksChanges ==
  /\ [](/\ pc \in {"main", "ReadFile", "Open"} => ~editor.modified
        /\ (saved # << >> /\ ~editor.modified) => Lines(editor, heap) = saved)
  /\ [][/\ lastEv'.op \in {"Rune", "Space", "Enter"} => editor'.modified
        /\ (lastEv'.op = "Backspace" /\ Lines(editor', heap') # Lines(editor, heap))
             => editor'.modified
        /\ (lastEv'.op = "Backspace" /\ Cursor(editor) = <<0, 0>>)
             => (editor' = editor /\ heap' = heap)
        /\ lastEv'.op \in {"ArrowLeft", "ArrowRight", "ArrowUp", "ArrowDown"}
             => /\ editor'.modified = editor.modified
                /\ Lines(editor', heap') = Lines(editor, heap)
        /\ (editor.modified /\ ~editor'.modified)
             => (lastEv'.op \in SaveSteps /\ ~lastEv'.fail)]_vars

\* C5 witness: a document that only editing produces was saved with Ctrl-S and
\* the flag is clear.
C5_Witness ==
  /\ pc = "loop"
  /\ lastEv.op = "CtrlS"
  /\ ~lastEv.fail
  /\ ~editor.modified
  /\ saved = <<<<" ">>, <<"a">>>>

\* C6: from every document and cursor of the key loop, insertNewline followed
\* by backspace gives the same lines in the same order and the same cursor.
C6_NewlineThenBackspace ==
  pc = "loop" =>
    LET m1 == insertNewline(editor, heap)
        m2 == backspace(m1.e, m1.h)
    IN  /\ Lines(m2.e, m2.h) = Lines(editor, heap)
        /\ Cursor(m2.e) = Cursor(editor)

\* C6 witness: the cursor is inside the first of two lines, the newline makes
\* three lines, and the backspace after it merges them back.
C6_Witness ==
  /\ pc = "loop"
  /\ Len(editor.content) = 2
  /\ Cursor(editor) = <<0, 1>>
  /\ LineLen(editor, 0) = 2
  /\ Len(insertNewline(editor, heap).e.content) = 3
  /\ Cursor(insertNewline(editor, heap).e) = <<1, 0>>
  /\ Len(backspace(insertNewline(editor, heap).e, insertNewline(editor, heap).h).e.content) = 2

\* C7: at every render of dm with visibleLines >= 1, startLine <= cursorY <
\* startLine + visibleLines and 0 <= startLine <= max(0, line count -
\* visibleLines).
C7_ViewportContainsCursor ==
  (variant = "dm" /\ screen.vis >= 1) =>
    /\ screen.startLine <= editor.cursorY
    /\ editor.cursorY < screen.startLine + screen.vis
    /\ 0 <= screen.startLine
    /\ screen.startLine <= Max(0, Len(editor.content) - screen.vis)

\* C7 witness: after Arrow Down the centred start line lay beyond the last
\* page and render clamped it to line count - visibleLines.
C7_Witness ==
  /\ variant = "dm"
  /\ lastEv.op = "ArrowDown"
  /\ screen.vis >= 1
  /\ Len(editor.content) > screen.vis
  /\ editor.cursorY - GoDiv(screen.vis, 2) > Len(editor.content) - screen.vis
  /\ screen.startLine = Len(editor.content) - screen.vis

\* C8: the bytes a save writes are the lines' encodings with one newline
\* between two lines and none after the last, and a load, a save and a second
\* load give the lines of the first load.
C8_LoadSaveLoad ==
  /\ loads = 2 => Lines(editor, heap) = firstLoad
  /\ lastEv.op = "CtrlS" =>
       LET ls == Lines(editor, heap)
           ps == Split(data)
       IN  /\ Len(ps) = Len(ls)
           /\ \A i \in 1..Len(ls) : ps[i] = Encode(ls[i])
           /\ Cardinality({k \in 1..Len(data) : data[k] = NL}) = Len(ls) - 1

\* C8 witness: a file of a whitespace-only line and two blank lines after it
\* has been loaded, saved and loaded again.
C8_Witness ==
  /\ loads = 2
  /\ pc = "loop"
  /\ firstLoad = <<<<" ">>, << >>, << >>>>
  /\ data = <<" ", NL, NL>>

\* C9: NewEditor starts an empty document only when the file is not found, and
\* a failed read ends the process with status 1 before keyboard.Open.
C9_OnlyNotFoundIsNewFile ==
  /\ (lastEv.op = "Stat" /\ pc = "Open") => fs = "absent"
  /\ (lastEv.op = "ReadFile" /\ lastEv.fail) => (pc = "exited" /\ exitCode = 1)

\* C10: after a failed read of the keyboard, in the key loop or at the prompt,
\* the process has exited with a non-zero status.
C10_KeyReadErrorIsFatal ==
  (lastEv.fail
     /\ \/ lastEv.op \in {"GetKey", "ConfirmOther"}
        \/ (lastEv.op = "Prompt" /\ lastEv.char = Nul))
  => (pc = "exited" /\ exitCode > 0)

\* C11: a Ctrl-Q step taken while modified is false ends the process in that
\* step with status 0, never enters the prompt, and leaves the file, the
\* editor and the record of the last save as they were.
C11_CleanQuitIsImmediate ==
  [][(pc = "loop" /\ lastEv'.op = "CtrlQ" /\ ~editor.modified)
     => /\ pc' = "exited"
        /\ exitCode' = 0
        /\ fs' = fs
        /\ data' = data
        /\ saved' = saved
        /\ editor' = editor]_vars

\* C11 witness: a two-line file was loaded, left unmodified, and Ctrl-Q ended
\* the session with the file as it was.
C11_Witness ==
  /\ pc = "exited"
  /\ lastEv.op = "CtrlQ"
  /\ exitCode = 0
  /\ ~editor.modified
  /\ ~rawMode
  /\ data = <<"a", NL, " ">>
  /\ Lines(editor, heap) = <<<<"a">>, <<" ">>>>

\* C12: from every document and cursor (y, x) of the key loop, insertNewline
\* leaves line y as its runes before x, puts its runes from x on as a new line
\* at y + 1, adds exactly one line, moves the cursor to (y + 1, 0), keeps the
\* lines before y where they were and each line after y one index further.
C12_NewlineSplitsLine ==
  pc = "loop" =>
    LET y == editor.cursorY
        x == editor.cursorX
        old == Lines(editor, heap)
        m == insertNewline(editor, heap)
        new == Lines(m.e, m.h)
    IN  /\ Len(new) = Len(old) + 1
        /\ new[y + 1] = SubSeq(old[y + 1], 1, x)
        /\ new[y + 2] = SubSeq(old[y + 1], x + 1, Len(old[y + 1]))
        /\ Cursor(m.e) = <<y + 1, 0>>
        /\ \A i \in 1..y : new[i] = old[i]
        /\ \A i \in (y + 2)..Len(old) : new[i + 1] = old[i]

\* C12 witness: the cursor stands between the two runes of the first line,
\* with an empty line below, and the newline gives three lines.
C12_Witness ==
  /\ pc = "loop"
  /\ Lines(editor, heap) = <<<<"a", " ">>, << >>>>
  /\ Cursor(editor) = <<0, 1>>
  /\ Lines(insertNewline(editor, heap).e, insertNewline(editor, heap).h)
       = <<<<"a">>, <<" ">>, << >>>>
  /\ Cursor(insertNewline(editor, heap).e) = <<1, 0>>

\* C13: from every document of the key loop with the cursor at (y, 0), y > 0,
\* backspace leaves line y - 1 as its old runes followed by the old runes of
\* line y, removes line y (one line fewer), moves the cursor to (y - 1, old
\* length of line y - 1), keeps the lines before y - 1 and moves each line
\* after y one index back.
C13_BackspaceMergesLines ==
  (pc = "loop" /\ editor.cursorX = 0 /\ editor.cursorY > 0) =>
    LET y == editor.cursorY
        old == Lines(editor, heap)
        m == backspace(editor, heap)
        new == Lines(m.e, m.h)
    IN  /\ Len(new) = Len(old) - 1
        /\ new[y] = old[y] \o old[y + 1]
        /\ Cursor(m.e) = <<y - 1, Len(old[y])>>
        /\ \A i \in 1..(y - 1) : new[i] = old[i]
        /\ \A i \in (y + 2)..Len(old) : new[i - 1] = old[i]

\* C13 witness: the cursor is at the start of the second of three lines, and
\* backspace joins it to the first, puts the cursor after the first line's
\* rune and moves the third line up.
C13_Witness ==
  /\ pc = "loop"
  /\ Lines(editor, heap) = <<<<"a">>, << >>, << >>>>
  /\ Cursor(editor) = <<1, 0>>
  /\ Lines(backspace(editor, heap).e, backspace(editor, heap).h)
       = <<<<"a">>, << >>>>
  /\ Cursor(backspace(editor, heap).e) = <<0, 1>>

\* C14: from every document of the key loop with the cursor at (y, x), x > 0,
\* backspace removes the rune at offset x - 1 of line y and no other (the
\* runes before it and the runes from x on follow each other in order),
\* moves the cursor to (y, x - 1), and keeps the line count and every other
\* line.
C14_BackspaceDeletesRune ==
  (pc = "loop" /\ editor.cursorX > 0) =>
    LET y == editor.cursorY
        x == editor.cursorX
        old == Lines(editor, heap)
        m == backspace(editor, heap)
        new == Lines(m.e, m.h)
    IN  /\ Len(new) = Len(old)
        /\ new[y + 1] = SubSeq(old[y + 1], 1, x - 1)
                           \o SubSeq(old[y + 1], x + 1, Len(old[y + 1]))
        /\ Len(new[y + 1]) = Len(old[y + 1]) - 1
        /\ Cursor(m.e) = <<y, x - 1>>
        /\ \A i \in 1..Len(old) : i # y + 1 => new[i] = old[i]

\* C14 witness: the cursor stands between the two runes of the second line,
\* and backspace removes the first of them.
C14_Witness ==
  /\ pc = "loop"
  /\ Lines(editor, heap) = <<<< >>, <<"a", " ">>>>
  /\ Cursor(editor) = <<1, 1>>
  /\ Lines(backspace(editor, heap).e, backspace(editor, heap).h) = <<<< >>, <<" ">>>>
  /\ Cursor(backspace(editor, heap).e) = <<1, 0>>

\* C15: from every document and cursor (y, x) of the key loop, whatever splits
\* and merges produced its lines, insertRune of a typed rune or a space gives
\* line y as its runes before x, the rune, and its runes from x on; moves the
\* cursor to (y, x + 1), inside the line; and keeps the line count and every
\* other line.
C15_InsertRuneTouchesOneLine ==
  pc = "loop" =>
    \A r \in TypedRunes \cup {" "} :
      LET y == editor.cursorY
          x == editor.cursorX
          old == Lines(editor, heap)
          m == insertRune(editor, heap, r)
          new == Lines(m.e, m.h)
      IN  /\ Len(new) = Len(old)
          /\ new[y + 1] = SubSeq(old[y + 1], 1, x) \o <<r>>
                             \o SubSeq(old[y + 1], x + 1, Len(old[y + 1]))
          /\ Cursor(m.e) = <<y, x + 1>>
          /\ x + 1 <= LineLen(m.e, y)
          /\ \A i \in 1..Len(old) : i # y + 1 => new[i] = old[i]

\* C15 witness: the saved line "a " was split after its first rune, the cursor
\* went back to the end of the left part, and a rune inserted there leaves the
\* right part as it was.
C15_Witness ==
  /\ pc = "loop"
  /\ saved = <<<<"a", " ">>>>
  /\ Lines(editor, heap) = <<<<"a">>, <<" ">>>>
  /\ Cursor(editor) = <<0, 1>>
  /\ Lines(insertRune(editor, heap, "a").e, insertRune(editor, heap, "a").h)
       = <<<<"a", "a">>, <<" ">>>>
  /\ Cursor(insertRune(editor, heap, "a").e) = <<0, 2>>

\* C16: an Arrow Up step moves cursorY one row up when there is a row above
\* and an Arrow Down step one row down when there is a row below, and each
\* leaves cursorY where it was otherwise; cursorY stays within the document;
\* cursorX becomes the smaller of its old value and the length of the line the
\* cursor is then on; the lines and the modified flag do not change.
C16_VerticalMoves ==
  [][(pc = "loop" /\ lastEv'.op \in {"ArrowUp", "ArrowDown"})
     => LET y == editor.cursorY
            n == Len(editor.content)
            to == IF lastEv'.op = "ArrowUp"
                  THEN (IF y - 1 >= 0 THEN y - 1 ELSE y)
                  ELSE (IF y + 1 <= n - 1 THEN y + 1 ELSE y)
            len == Len(Lines(editor, heap)[to + 1])
        IN  /\ editor'.cursorY = to
            /\ to \in 0..(n - 1)
            /\ editor'.cursorX = (IF editor.cursorX < len THEN editor.cursorX ELSE len)
            /\ Lines(editor', heap') = Lines(editor, heap)
            /\ editor'.modified = editor.modified]_vars

\* C16 witness: after Arrow Up the cursor is on the empty first line, at its
\* end, above a line of two runes that was typed into the loaded document.
C16_Witness ==
  /\ pc = "loop"
  /\ lastEv.op = "ArrowUp"
  /\ Lines(editor, heap) = <<<< >>, <<"a", " ">>>>
  /\ Cursor(editor) = <<0, 0>>
  /\ saved = <<<<"a">>>>

\* C17: an Arrow Left step moves cursorX one to the left unless it is 0, an
\* Arrow Right step one to the right unless it is the length of the line, and
\* each is a no-op at that end; cursorY, the lines and the modified flag do
\* not change.
C17_HorizontalMoves ==
  [][(pc = "loop" /\ lastEv'.op \in {"ArrowLeft", "ArrowRight"})
     => LET x == editor.cursorX
            len == Len(Lines(editor, heap)[editor.cursorY + 1])
        IN  /\ editor'.cursorX =
                  (IF lastEv'.op = "ArrowLeft"
                   THEN (IF x = 0 THEN x ELSE x - 1)
                   ELSE (IF x = len THEN x ELSE x + 1))
            /\ editor'.cursorX \in 0..len
            /\ editor'.cursorY = editor.cursorY
            /\ Lines(editor', heap') = Lines(editor, heap)
            /\ editor'.modified = editor.modified]_vars

\* C17 witness: Arrow Right was pressed at the end of the first of two lines
\* and the cursor is still there.
C17_Witness ==
  /\ pc = "loop"
  /\ lastEv.op = "ArrowRight"
  /\ Lines(editor, heap) = <<<<"a">>, <<" ">>>>
  /\ Cursor(editor) = <<0, 1>>
  /\ ~editor.modified

\* C18: at the quit prompt a keystroke with a rune is appended to the
\* response and Backspace removes its last rune, both staying at the prompt;
\* a finalized response (the response at Enter, or the one keystroke of the
\* single-keystroke prompt) that is "y" saves, and ends the session when the
\* save succeeded; "n" ends the session and writes nothing; any other one
\* clears the response, writes nothing and stays at the prompt.
C18_ConfirmingQuit ==
  [][pc = "confirm" =>
       LET op == lastEv'.op
           answer == IF op = "ConfirmEnter" THEN response ELSE <<lastEv'.char>>
           final == op = "ConfirmEnter" \/ (op = "Prompt" /\ lastEv'.char # Nul)
       IN  /\ op = "ConfirmRune"
                => (response' = Append(response, lastEv'.char) /\ pc' = "confirm")
           /\ op = "ConfirmBackspace"
                => /\ response' = (IF response = << >> THEN << >>
                                   ELSE SubSeq(response, 1, Len(response) - 1))
                   /\ pc' = "confirm"
           /\ (final /\ answer = <<"y">>)
                => /\ ~lastEv'.fail => /\ data' = Serialize(editor, heap)
                                       /\ pc' = "exited"
                                       /\ exitCode' = 0
                   /\ lastEv'.fail => pc' # "exited"
           /\ (final /\ answer = <<"n">>)
                => (pc' = "exited" /\ exitCode' = 0 /\ data' = data /\ fs' = fs)
           /\ (final /\ answer \notin {<<"y">>, <<"n">>})
                => (pc' = "confirm" /\ response' = << >> /\ data' = data /\ fs' = fs)]_vars

\* C19: at every render the terminal cursor's row is cursorY - startLine + 1
\* and lies within the rows drawn, and its column is the cell after the
\* gutter printed before line cursorY and the cursorX runes before the
\* cursor: column cursorX + prefix width + 1, columns counted from 1.
C19_CursorOnEditCell ==
  /\ screen.row = editor.cursorY - screen.startLine + 1
  /\ screen.row \in 1..screen.vis
  /\ screen.col = editor.cursorX + screen.prefix + 1

\* C20: every step taken at the quit prompt, to the exit or back to the key
\* loop included, leaves the lines and the cursor as they were; the file
\* changes, and the modified flag falls, only in the save of a "y" answer.
C20_PromptLeavesDocument ==
  [][pc = "confirm" =>
       LET yes == \/ (lastEv'.op = "Prompt" /\ lastEv'.char = "y")
                  \/ (lastEv'.op = "ConfirmEnter" /\ response = <<"y">>)
       IN  /\ Lines(editor', heap') = Lines(editor, heap)
           /\ Cursor(editor') = Cursor(editor)
           /\ (data' # data \/ fs' # fs) => yes
           /\ editor'.modified # editor.modified => (yes /\ ~lastEv'.fail)]_vars

\* C20 witness: at the prompt of dm the answer "y" was entered and the save
\* failed leaving the file truncated; the typed document and the cursor are
\* still those of before Ctrl-Q.
C20_Witness ==
  /\ variant = "dm"
  /\ pc = "confirm"
  /\ lastEv.op = "ConfirmEnter"
  /\ lastEv.fail
  /\ saved = <<<<"a">>>>
  /\ data = << >>
  /\ Lines(editor, heap) = <<<<"a", "a">>>>
  /\ Cursor(editor) = <<0, 2>>

=============================================================================
